---- MODULE Spec2Model ----
(***************************************************************************)
(* Model of the command layer of dimppl-desktop                            *)
(* (src-tauri/src/commands.rs).                                            *)
(*                                                                         *)
(* Three groups of commands are modelled:                                  *)
(*   - the long-running entry points sync_podcasts, import_podcast and     *)
(*     download_episode, each of which detaches a tokio task;              *)
(*   - the player commands play_episode, player_action and seek;           *)
(*   - set_volume, which writes the Config and then calls the Player.      *)
(*                                                                         *)
(* The collaborators the commands call (podcast::*, episode::*, Player,    *)
(* ConfigWrapper, AppHandle) are not part of commands.rs.  Their results   *)
(* are nondeterministic (Ok or Err) where they return an AppResult; the    *)
(* Player, the download tracker and ConfigWrapper::update follow the       *)
(* written specification of those components.                              *)
(*                                                                         *)
(* f32 volumes are represented in tenths (10 stands for 1.0).              *)
(***************************************************************************)
EXTENDS Integers, Sequences, FiniteSets, TLC

VARIABLES
    tasks,      \* the detached tokio tasks, in spawn order
    acks,       \* what each long-running command returned, in call order
    sink,       \* per task, the calls it made on the notification sink, in order
    nextUuid,   \* the next value Uuid::new_v4 hands out
    podcasts,   \* the podcast table, in list_all order
    dlState,    \* persisted download state of each episode
    tracker,    \* EpisodeDownloads: handle -> episode -> progress (-1: no entry)
    xfer,       \* per episode: transfers begun, completed and failed
    pstate,     \* PlayerState: status, episode, position, volume
    chains,     \* the live decode/output chains (the thread that built each)
    plock,      \* the Player's internal lock: 0, or the context holding it
    threads,    \* the std::thread::spawn'ed threads, in spawn order
    progress,   \* persisted EpisodeProgress of each episode
    calls,      \* the player and config command invocations, in call order
    config,     \* the Config held by ConfigWrapper
    cfgLock,    \* the Mutex around the Config: 0, or the call holding its guard
    opCtx,      \* which Player operations ran in which execution context
    script      \* the commands still to be invoked (scripted runs only)

orchVars == <<tasks, acks, sink, nextUuid, podcasts, dlState, tracker, xfer>>

playerVars ==
    <<pstate, chains, plock, threads, progress, calls, config, cfgLock, opCtx, script>>

vars == <<tasks, acks, sink, nextUuid, podcasts, dlState, tracker, xfer,
          pstate, chains, plock, threads, progress, calls, config, cfgLock, opCtx,
          script>>

(***************************************************************************)
(* Bounds                                                                  *)
(***************************************************************************)
\* how many long-running commands are invoked in one run
MaxCalls == 2

\* how many progress reports a transfer publishes before it completes
MaxChunks == 1

PodcastIds == {1, 2}

EpisodeIds == {7, 42}

\* the podcast table at start-up: any duplicate-free list of podcast ids
InitialPodcasts == {<<>>, <<1>>, <<1, 2>>, <<2, 1>>}

Handles == 0..MaxCalls

\* how many player and volume commands are invoked in one run
MaxCmds == 2

\* an id with no row in the episode table
MissingEpisode == 0

EpisodeDuration == [e \in EpisodeIds |-> 150]

\* skip_forwards / skip_backwards move the position by this many seconds
SkipInterval == 30

\* the arguments the commands are invoked with
SeekTargets == {-10, 120, 400}

VolumeInputs == {-5, 5, 8, 15}

PlayerActions == {"play", "pause", "skip_forwards", "skip_backwards", "stop"}

\* what the episode_progress table may hold for an episode at start-up
InitialProgress ==
    {[listened_seconds |-> 0, completed |-> FALSE],
     [listened_seconds |-> 30, completed |-> FALSE],
     [listened_seconds |-> 150, completed |-> TRUE]}

InitialConfig ==
    [user_access_key |-> "key0", device_name |-> "dev0",
     access_token |-> "tok0", volume |-> 10]

NoConfig ==
    [user_access_key |-> "", device_name |-> "", access_token |-> "", volume |-> 0]

\* the handle of the EpisodeDownloads value that tauri manages
SharedTracker == 0

(***************************************************************************)
(* Helpers                                                                 *)
(***************************************************************************)
Range(s) == {s[i] : i \in 1..Len(s)}

\* one call on the notification sink
SinkEntry(name, payload, ok) == [name |-> name, payload |-> payload, ok |-> ok]

\* task t makes the calls es on the notification sink
Emit(t, es) == sink' = [sink EXCEPT ![t] = @ \o es]

NewTask(kind, id, trk) ==
    [kind |-> kind, pc |-> "start", id |-> id, podcast |-> 0,
     listed |-> <<>>, todo |-> <<>>, trk |-> trk, res |-> "none"]

SetTask(t, r) == tasks' = [tasks EXCEPT ![t] = r]

\* app.send_invalidate_cache(change): Ok when the event was delivered
send_invalidate_cache(t, change, ok) ==
    Emit(t, <<SinkEntry("invalidate-cache", change, ok)>>)

\* app.emit_all(name, payload); every caller discards its result (let _ =)
emit_all(t, name, payload, ok) ==
    Emit(t, <<SinkEntry(name, payload, ok)>>)

(***************************************************************************)
(* sync_podcasts (commands.rs 23-40)                                       *)
(***************************************************************************)
\* the command: spawn the task, return Ok(())
sync_podcasts ==
    /\ Len(tasks) < MaxCalls
    /\ tasks' = Append(tasks, NewTask("sync", 0, SharedTracker))
    /\ acks' = Append(acks, [cmd |-> "sync_podcasts", ok |-> TRUE, value |-> 0])
    /\ sink' = Append(sink, <<>>)
    /\ UNCHANGED <<nextUuid, podcasts, dlState, tracker, xfer>>
    /\ UNCHANGED playerVars

\* podcast::sync_podcasts(&mut connection).await.unwrap()
SyncRemote(t) ==
    /\ tasks[t].kind = "sync" /\ tasks[t].pc = "start"
    /\ \/ \E ps \in {podcasts} \cup
                     {Append(podcasts, p) : p \in PodcastIds \ Range(podcasts)} :
            /\ podcasts' = ps
            /\ SetTask(t, [tasks[t] EXCEPT !.pc = "list"])
       \/ /\ SetTask(t, [tasks[t] EXCEPT !.pc = "panicked"])
          /\ UNCHANGED podcasts
    /\ UNCHANGED <<acks, sink, nextUuid, dlState, tracker, xfer>>
    /\ UNCHANGED playerVars

\* podcast::list_all(&mut connection).unwrap()
SyncList(t) ==
    /\ tasks[t].kind = "sync" /\ tasks[t].pc = "list"
    /\ \/ SetTask(t, [tasks[t] EXCEPT !.pc = "all", !.listed = podcasts,
                                       !.todo = podcasts])
       \/ SetTask(t, [tasks[t] EXCEPT !.pc = "panicked"])
    /\ UNCHANGED <<acks, sink, nextUuid, podcasts, dlState, tracker, xfer>>
    /\ UNCHANGED playerVars

\* one send_invalidate_cache(..).unwrap() of the task: on Err the task panics
SyncSend(t, change, okPc, ok) ==
    /\ send_invalidate_cache(t, change, ok)
    /\ SetTask(t, [tasks[t] EXCEPT !.pc = IF ok THEN okPc ELSE "panicked"])

\* app.send_invalidate_cache(EntityChange::AllPodcasts).unwrap()
SyncAll(t) ==
    /\ tasks[t].kind = "sync" /\ tasks[t].pc = "all"
    /\ \E ok \in BOOLEAN : SyncSend(t, <<"AllPodcasts", 0>>, "podcast", ok)
    /\ UNCHANGED <<acks, nextUuid, podcasts, dlState, tracker, xfer>>
    /\ UNCHANGED playerVars

\* for podcast in &podcasts: send Podcast(podcast.id)
SyncPodcast(t) ==
    /\ tasks[t].kind = "sync" /\ tasks[t].pc = "podcast"
    /\ tasks[t].todo # <<>>
    /\ \E ok \in BOOLEAN :
           SyncSend(t, <<"Podcast", Head(tasks[t].todo)>>, "episodes", ok)
    /\ UNCHANGED <<acks, nextUuid, podcasts, dlState, tracker, xfer>>
    /\ UNCHANGED playerVars

\* ... then send PodcastEpisodes(podcast.id), and go on to the next podcast
SyncEpisodes(t) ==
    /\ tasks[t].kind = "sync" /\ tasks[t].pc = "episodes"
    /\ \E ok \in BOOLEAN :
          /\ send_invalidate_cache(t, <<"PodcastEpisodes", Head(tasks[t].todo)>>, ok)
          /\ SetTask(t, IF ok
                         THEN [tasks[t] EXCEPT !.pc = "podcast",
                                               !.todo = Tail(tasks[t].todo)]
                         ELSE [tasks[t] EXCEPT !.pc = "panicked"])
    /\ UNCHANGED <<acks, nextUuid, podcasts, dlState, tracker, xfer>>
    /\ UNCHANGED playerVars

\* a slip: the emit_all is inside the loop, the task ends after the first turn
SyncDoneInsideLoop(t) ==
    /\ tasks[t].kind = "sync" /\ tasks[t].pc = "podcast"
    /\ tasks[t].todo = <<>> \/ Len(tasks[t].todo) < Len(tasks[t].listed)
    /\ \E ok \in BOOLEAN : emit_all(t, "sync-podcasts-done", <<"unit", 0>>, ok)
    /\ SetTask(t, [tasks[t] EXCEPT !.pc = "finished", !.res = "ok"])
    /\ UNCHANGED <<acks, nextUuid, podcasts, dlState, tracker, xfer>>
    /\ UNCHANGED playerVars

\* let _ = app.emit_all("sync-podcasts-done", ())
SyncDone(t) ==
    /\ tasks[t].kind = "sync" /\ tasks[t].pc = "podcast"
    /\ tasks[t].todo = <<>>
    /\ \E ok \in BOOLEAN : emit_all(t, "sync-podcasts-done", <<"unit", 0>>, ok)
    /\ SetTask(t, [tasks[t] EXCEPT !.pc = "finished", !.res = "ok"])
    /\ UNCHANGED <<acks, nextUuid, podcasts, dlState, tracker, xfer>>
    /\ UNCHANGED playerVars

(***************************************************************************)
(* import_podcast / do_import_podcast (commands.rs 102-126)                *)
(***************************************************************************)
\* the command: draw the identifier, spawn the task, return Ok(import_id)
import_podcast ==
    /\ Len(tasks) < MaxCalls
    /\ tasks' = Append(tasks, NewTask("import", nextUuid, SharedTracker))
    /\ acks' = Append(acks, [cmd |-> "import_podcast", ok |-> TRUE, value |-> nextUuid])
    /\ nextUuid' = nextUuid + 1
    /\ sink' = Append(sink, <<>>)
    /\ UNCHANGED <<podcasts, dlState, tracker, xfer>>
    /\ UNCHANGED playerVars

\* podcast::import_podcast_from_url(url, &mut conn).await?
ImportFetch(t) ==
    /\ tasks[t].kind = "import" /\ tasks[t].pc = "start"
    /\ \/ \E p \in PodcastIds :
            /\ podcasts' = IF p \in Range(podcasts) THEN podcasts
                           ELSE Append(podcasts, p)
            /\ SetTask(t, [tasks[t] EXCEPT !.pc = "publish", !.podcast = p])
       \/ /\ SetTask(t, [tasks[t] EXCEPT !.pc = "match", !.res = "err"])
          /\ UNCHANGED podcasts
    /\ UNCHANGED <<acks, sink, nextUuid, dlState, tracker, xfer>>
    /\ UNCHANGED playerVars

\* app.send_invalidate_cache(EntityChange::Podcast(podcast.id))?; Ok(())
ImportPublish(t) ==
    /\ tasks[t].kind = "import" /\ tasks[t].pc = "publish"
    /\ \E ok \in BOOLEAN :
          /\ send_invalidate_cache(t, <<"Podcast", tasks[t].podcast>>, ok)
          /\ SetTask(t, [tasks[t] EXCEPT !.pc = "match",
                                        !.res = IF ok THEN "ok" ELSE "err"])
    /\ UNCHANGED <<acks, nextUuid, podcasts, dlState, tracker, xfer>>
    /\ UNCHANGED playerVars

\* a slip in the match: the Err arm emits nothing
ImportNotificationsErrDropped(id, res) ==
    IF res = "ok"
    THEN << [name |-> "import-podcast-done", payload |-> <<"id", id>>] >>
    ELSE << >>

\* a slip in the match: both arms emit import-podcast-done
ImportNotificationsAlwaysDone(id, res) ==
    << [name |-> "import-podcast-done", payload |-> <<"id", id>>] >>

\* match result { Ok(_) => emit import-podcast-done, Err(e) => emit import-podcast-error }
ImportNotifications(id, res) ==
    IF res = "ok"
    THEN << [name |-> "import-podcast-done", payload |-> <<"id", id>>] >>
    ELSE << [name |-> "import-podcast-error", payload |-> <<"id", id>>] >>

\* the task's match on the result of do_import_podcast
ImportMatch(t) ==
    /\ tasks[t].kind = "import" /\ tasks[t].pc = "match"
    /\ \E ok \in BOOLEAN :
          LET ns == ImportNotifications(tasks[t].id, tasks[t].res)
          IN  Emit(t, [i \in 1..Len(ns) |->
                          SinkEntry(ns[i].name, ns[i].payload, ok)])
    /\ SetTask(t, [tasks[t] EXCEPT !.pc = "finished"])
    /\ UNCHANGED <<acks, nextUuid, podcasts, dlState, tracker, xfer>>
    /\ UNCHANGED playerVars

(***************************************************************************)
(* download_episode / do_download_episode (commands.rs 134-152)            *)
(***************************************************************************)
\* a slip: every task is handed a tracker of its own
CloneTrackerPrivate(t) == t

\* progress_indicator.deref().clone(): another handle on the managed tracker
CloneTracker(t) == SharedTracker

\* a slip: the command awaits the JoinHandle, nothing is returned at the spawn
download_episode_awaited(id) ==
    /\ Len(tasks) < MaxCalls
    /\ tasks' = Append(tasks, NewTask("download", id, CloneTracker(Len(tasks) + 1)))
    /\ sink' = Append(sink, <<>>)
    /\ UNCHANGED <<acks, nextUuid, podcasts, dlState, tracker, xfer>>
    /\ UNCHANGED playerVars

\* the command: spawn do_download_episode, return Ok(())
download_episode(id) ==
    /\ Len(tasks) < MaxCalls
    /\ tasks' = Append(tasks, NewTask("download", id, CloneTracker(Len(tasks) + 1)))
    /\ acks' = Append(acks, [cmd |-> "download_episode", ok |-> TRUE, value |-> 0])
    /\ sink' = Append(sink, <<>>)
    /\ UNCHANGED <<nextUuid, podcasts, dlState, tracker, xfer>>
    /\ UNCHANGED playerVars

SetTracker(h, e, v) == tracker' = [tracker EXCEPT ![h][e] = v]

Bump(e, field) == xfer' = [xfer EXCEPT ![e][field] = @ + 1]

\* episode::start_download(id, &progress_indicator, &mut conn), its entry:
\* a start for an id with a live tracker entry is rejected, one for an
\* episode already downloaded transfers nothing, any other begins a transfer
start_download(t) ==
    LET e == tasks[t].id
        h == tasks[t].trk
    IN  \/ /\ tracker[h][e] >= 0
           /\ SetTask(t, [tasks[t] EXCEPT !.pc = "finished", !.res = "err"])
           /\ UNCHANGED <<tracker, dlState, xfer>>
        \/ /\ tracker[h][e] < 0
           /\ dlState[e] = "downloaded"
           /\ SetTask(t, [tasks[t] EXCEPT !.pc = "publish"])
           /\ UNCHANGED <<tracker, dlState, xfer>>
        \/ /\ tracker[h][e] < 0
           /\ dlState[e] # "downloaded"
           /\ SetTracker(h, e, 0)
           /\ dlState' = [dlState EXCEPT ![e] = "downloading"]
           /\ Bump(e, "begun")
           /\ SetTask(t, [tasks[t] EXCEPT !.pc = "transfer"])

\* episode::start_download(..).await? is entered
DownloadStart(t) ==
    /\ tasks[t].kind = "download" /\ tasks[t].pc = "start"
    /\ start_download(t)
    /\ UNCHANGED <<acks, sink, nextUuid, podcasts>>
    /\ UNCHANGED playerVars

\* the transfer publishes one more progress report into the tracker
TransferProgress(t) ==
    /\ tasks[t].kind = "download" /\ tasks[t].pc = "transfer"
    /\ tracker[tasks[t].trk][tasks[t].id] < MaxChunks
    /\ SetTracker(tasks[t].trk, tasks[t].id, tracker[tasks[t].trk][tasks[t].id] + 1)
    /\ UNCHANGED <<tasks, acks, sink, nextUuid, podcasts, dlState, xfer>>
    /\ UNCHANGED playerVars

\* the transfer completes: the episode is marked downloaded, the entry removed,
\* and start_download returns Ok(())
TransferComplete(t) ==
    /\ tasks[t].kind = "download" /\ tasks[t].pc = "transfer"
    /\ tracker[tasks[t].trk][tasks[t].id] = MaxChunks
    /\ SetTracker(tasks[t].trk, tasks[t].id, -1)
    /\ dlState' = [dlState EXCEPT ![tasks[t].id] = "downloaded"]
    /\ Bump(tasks[t].id, "done")
    /\ SetTask(t, [tasks[t] EXCEPT !.pc = "publish"])
    /\ UNCHANGED <<acks, sink, nextUuid, podcasts>>
    /\ UNCHANGED playerVars

\* the transfer fails: the episode is marked not downloaded, the entry removed,
\* start_download returns Err, and the `?` of line 147 returns it from the task
TransferFail(t) ==
    /\ tasks[t].kind = "download" /\ tasks[t].pc = "transfer"
    /\ SetTracker(tasks[t].trk, tasks[t].id, -1)
    /\ dlState' = [dlState EXCEPT ![tasks[t].id] = "not_downloaded"]
    /\ Bump(tasks[t].id, "failed")
    /\ SetTask(t, [tasks[t] EXCEPT !.pc = "finished", !.res = "err"])
    /\ UNCHANGED <<acks, sink, nextUuid, podcasts>>
    /\ UNCHANGED playerVars

\* app.send_invalidate_cache(EntityChange::Episode(id))?; Ok(())
DownloadPublish(t) ==
    /\ tasks[t].kind = "download" /\ tasks[t].pc = "publish"
    /\ \E ok \in BOOLEAN :
          /\ send_invalidate_cache(t, <<"Episode", tasks[t].id>>, ok)
          /\ SetTask(t, [tasks[t] EXCEPT !.pc = "finished",
                                        !.res = IF ok THEN "ok" ELSE "err"])
    /\ UNCHANGED <<acks, nextUuid, podcasts, dlState, tracker, xfer>>
    /\ UNCHANGED playerVars

(***************************************************************************)
(* The Player (crate::player::Player), after the specification of the      *)
(* Player state machine: every operation runs under the Player's lock.     *)
(***************************************************************************)
Clamp(x, lo, hi) == IF x < lo THEN lo ELSE IF x > hi THEN hi ELSE x

Active(s) == s.status \in {"Playing", "Paused"}

\* play(): Paused -> Playing, no-op otherwise
PlayerPlay(s) == IF s.status = "Paused" THEN [s EXCEPT !.status = "Playing"] ELSE s

\* pause(): Playing -> Paused, no-op otherwise
PlayerPause(s) == IF s.status = "Playing" THEN [s EXCEPT !.status = "Paused"] ELSE s

\* seek_to(position): valid in Playing / Paused, clamped to [0, duration]
PlayerSeekTo(s, to) ==
    IF Active(s)
    THEN [s EXCEPT !.position = Clamp(to, 0, EpisodeDuration[s.episode])]
    ELSE s

\* skip_forwards(): relative seek by the fixed interval
PlayerSkipForwards(s) == PlayerSeekTo(s, s.position + SkipInterval)

\* skip_backwards()
PlayerSkipBackwards(s) == PlayerSeekTo(s, s.position - SkipInterval)

\* set_volume(v): clamped to [0.0, 1.0], whatever the transport state
PlayerSetVolume(s, v) == [s EXCEPT !.volume = Clamp(v, 0, 10)]

\* the checkpoint written on pause and on stop
Checkpoint(s) ==
    IF Active(s)
    THEN [progress EXCEPT ![s.episode] =
             [listened_seconds |-> s.position,
              completed |-> s.position >= EpisodeDuration[s.episode]]]
    ELSE progress

\* a play_episode that builds the new chain beside the old one
PlayerTeardownSkipped(s) == <<s, chains, progress>>

\* stop(): release the decode/output chain and persist the progress
PlayerTeardown(s) ==
    <<[s EXCEPT !.status = "Stopped"], {}, Checkpoint(s)>>

\* the simple transport operations, by the name player_action matches on
PlayerApply(op, s) ==
    CASE op = "play" -> PlayerPlay(s)
      [] op = "pause" -> PlayerPause(s)
      [] op = "skip_forwards" -> PlayerSkipForwards(s)
      [] op = "skip_backwards" -> PlayerSkipBackwards(s)
      [] OTHER -> s

(***************************************************************************)
(* play_episode, player_action, seek (commands.rs 166-196, 217-221)        *)
(***************************************************************************)
NewCall(cmd, arg, action, pc, res) ==
    [cmd |-> cmd, arg |-> arg, action |-> action, pc |-> pc,
     snap |-> NoConfig, res |-> res]

NewThread(op, ep, start) == [op |-> op, ep |-> ep, start |-> start, pc |-> "spawned"]

Ran(op, ctx) == opCtx' = opCtx \cup {<<op, ctx>>}

\* an offset no i32 reaches: what a negative value becomes under `as u64`
WrappedOffset == 2147483647

\* listened_seconds as u64
AsU64(x) == IF x >= 0 THEN x ELSE WrappedOffset

\* a slip: the completed flag is not looked at
start_seconds_always_resumes(p) == AsU64(p.listened_seconds)

\* let start_seconds = if progress.completed { 0 } else { progress.listened_seconds as u64 };
start_seconds(p) == IF p.completed THEN 0 ELSE AsU64(p.listened_seconds)

\* a slip: the thread is spawned when the episode is found, before the lookup
\* of its progress is checked
play_episode_err_after_spawn(id) ==
    /\ threads' = IF id \in EpisodeIds
                   THEN Append(threads, NewThread("play_episode", id, 0))
                   ELSE threads
    /\ calls' = Append(calls, NewCall("play_episode", id, "", "returned", "err"))
    /\ UNCHANGED <<pstate, chains, plock, progress, config, cfgLock, opCtx>>

\* the command play_episode(id): both lookups succeed, the thread is spawned
play_episode_ok(id) ==
    /\ id \in EpisodeIds
    /\ threads' = Append(threads,
                         NewThread("play_episode", id, start_seconds(progress[id])))
    /\ calls' = Append(calls, NewCall("play_episode", id, "", "returned", "ok"))
    /\ UNCHANGED <<pstate, chains, plock, progress, config, cfgLock, opCtx>>

\* the command play_episode(id): find_one or find_one_progress returns Err,
\* which the `?` returns to the caller
play_episode_err(id) ==
    /\ calls' = Append(calls, NewCall("play_episode", id, "", "returned", "err"))
    /\ UNCHANGED <<pstate, chains, plock, threads, progress, config, cfgLock, opCtx>>

play_episode(id) ==
    \/ play_episode_ok(id)
    \/ play_episode_err(id)

\* the command player_action(action): spawn the thread, return Ok(())
player_action(action) ==
    /\ threads' = Append(threads, NewThread(action, 0, 0))
    /\ calls' = Append(calls, NewCall("player_action", 0, action, "returned", "ok"))
    /\ UNCHANGED <<pstate, chains, plock, progress, config, cfgLock, opCtx>>

\* the command seek(to): player.seek_to(to) in the command itself, then Ok(())
seek(to) ==
    /\ plock = 0
    /\ pstate' = PlayerSeekTo(pstate, to)
    /\ Ran("seek_to", "caller")
    /\ calls' = Append(calls, NewCall("seek", to, "", "returned", "ok"))
    /\ UNCHANGED <<chains, plock, threads, progress, config, cfgLock>>

\* a spawned thread runs player.play_episode: it takes the Player's lock and
\* tears the current chain down
ThreadTeardown(i) ==
    /\ threads[i].op = "play_episode" /\ threads[i].pc = "spawned"
    /\ plock = 0
    /\ plock' = i
    /\ LET r == PlayerTeardown(pstate)
       IN  /\ pstate' = r[1]
           /\ chains' = r[2]
           /\ progress' = r[3]
    /\ threads' = [threads EXCEPT ![i].pc = "construct"]
    /\ UNCHANGED <<calls, config, cfgLock, opCtx>>

\* ... then builds the chain of the new episode at start_seconds and releases
\* the lock; a chain that cannot be built leaves the Player stopped, and the
\* thread drops the error (let _ =)
ThreadConstruct(i) ==
    /\ threads[i].op = "play_episode" /\ threads[i].pc = "construct"
    /\ plock = i
    /\ \/ /\ chains' = chains \cup {i}
          /\ pstate' = [pstate EXCEPT
                 !.status = "Playing",
                 !.episode = threads[i].ep,
                 !.position = Clamp(threads[i].start, 0, EpisodeDuration[threads[i].ep])]
          /\ threads' = [threads EXCEPT ![i].pc = "done"]
       \/ /\ pstate' = [pstate EXCEPT !.status = "Stopped", !.episode = 0,
                                      !.position = 0]
          /\ threads' = [threads EXCEPT ![i].pc = "failed"]
          /\ UNCHANGED chains
    /\ plock' = 0
    /\ Ran("play_episode", "thread")
    /\ UNCHANGED <<progress, calls, config, cfgLock>>

\* a spawned thread runs the operation player_action matched, or nothing
ThreadAction(i) ==
    /\ threads[i].op # "play_episode" /\ threads[i].pc = "spawned"
    /\ plock = 0
    /\ pstate' = PlayerApply(threads[i].op, pstate)
    /\ progress' = IF threads[i].op = "pause" THEN Checkpoint(pstate) ELSE progress
    /\ opCtx' = IF threads[i].op \in {"play", "pause", "skip_forwards", "skip_backwards"}
                THEN opCtx \cup {<<threads[i].op, "thread">>}
                ELSE opCtx
    /\ threads' = [threads EXCEPT ![i].pc = "done"]
    /\ UNCHANGED <<chains, plock, calls, config, cfgLock>>

(***************************************************************************)
(* set_volume (commands.rs 204-215)                                        *)
(***************************************************************************)
\* ConfigWrapper::update(new): replaces the value and persists it; when the
\* persistence fails the value is left as it was and Err is returned
update(new, ok) == config' = IF ok THEN new ELSE config

\* a slip: the guard is bound to a name and lives on to the end of the command
GuardKept(c) == c

\* config_wrapper.0.lock().unwrap().clone(): who holds the Mutex when the
\* statement has ended; the guard is a temporary, dropped with the statement
GuardAfterSnapshot(c) == 0

\* a slip: the clone is taken field by field, the lock not held, and the
\* fields of a value being built by the latest call show through
SnapshotTorn ==
    IF calls # <<>> /\ calls[Len(calls)].snap # NoConfig
    THEN [config EXCEPT !.volume = calls[Len(calls)].snap.volume,
                        !.device_name = calls[Len(calls)].snap.device_name]
    ELSE config

\* config_wrapper.0.lock().unwrap().clone(): the value cloned under the lock
Snapshot == config

\* let mut config = config_wrapper.0.lock().unwrap().clone(); config.volume = volume;
set_volume(volume) ==
    /\ cfgLock = 0
    /\ calls' = Append(calls,
                       [NewCall("set_volume", volume, "", "update", "none")
                           EXCEPT !.snap = [Snapshot EXCEPT !.volume = volume]])
    /\ cfgLock' = GuardAfterSnapshot(Len(calls) + 1)
    /\ UNCHANGED <<pstate, chains, plock, threads, progress, config, opCtx>>

\* config_wrapper.update(config)?;
SetVolumeUpdate(c) ==
    /\ c \in 1..Len(calls)
    /\ calls[c].cmd = "set_volume" /\ calls[c].pc = "update"
    /\ cfgLock = 0
    /\ \E ok \in BOOLEAN :
          /\ update(calls[c].snap, ok)
          /\ calls' = [calls EXCEPT ![c] =
                          IF ok THEN [@ EXCEPT !.pc = "player"]
                          ELSE [@ EXCEPT !.pc = "returned", !.res = "err"]]
    /\ UNCHANGED <<pstate, chains, plock, threads, progress, cfgLock, opCtx, script>>
    /\ UNCHANGED orchVars

\* player.set_volume(volume); Ok(())
SetVolumePlayer(c) ==
    /\ c \in 1..Len(calls)
    /\ calls[c].cmd = "set_volume" /\ calls[c].pc = "player"
    /\ plock = 0
    /\ pstate' = PlayerSetVolume(pstate, calls[c].arg)
    /\ Ran("set_volume", "caller")
    /\ calls' = [calls EXCEPT ![c] = [@ EXCEPT !.pc = "returned", !.res = "ok"]]
    /\ UNCHANGED <<chains, plock, threads, progress, config, cfgLock, script>>
    /\ UNCHANGED orchVars

(***************************************************************************)
(* get_config, set_config, register_user, set_access_key, register_device  *)
(* (commands.rs 60-100)                                                    *)
(***************************************************************************)
\* the arguments the commands are invoked with
ConfigInputs ==
    {[user_access_key |-> "key2", device_name |-> "dev2",
      access_token |-> "tok2", volume |-> 3]}

KeyInputs == {"key1"}

DeviceNames == {"dev1"}

\* response.access_key of create_user, response.access_token of create_device
CreatedKey == "keyU"

CreatedToken == "tokD"

\* config_wrapper.0.lock().unwrap().clone(): the read waits for the Mutex
get_config ==
    /\ cfgLock = 0
    /\ calls' = Append(calls,
                       [NewCall("get_config", 0, "", "returned", "ok")
                           EXCEPT !.snap = Snapshot])
    /\ UNCHANGED <<pstate, chains, plock, threads, progress, config, cfgLock, opCtx>>

\* config_wrapper.update(new_config)?; Ok(())
set_config(new_config) ==
    /\ cfgLock = 0
    /\ \E ok \in BOOLEAN :
          /\ update(new_config, ok)
          /\ calls' = Append(calls,
                 [NewCall("set_config", 0, "", "returned", IF ok THEN "ok" ELSE "err")
                     EXCEPT !.snap = new_config])
    /\ UNCHANGED <<pstate, chains, plock, threads, progress, cfgLock, opCtx>>

\* let mut config = ...lock().unwrap().clone(); config.user_access_key = value;
set_access_key(value) ==
    /\ cfgLock = 0
    /\ calls' = Append(calls,
                       [NewCall("set_access_key", value, "", "update", "none")
                           EXCEPT !.snap = [Snapshot EXCEPT !.user_access_key = value]])
    /\ cfgLock' = GuardAfterSnapshot(Len(calls) + 1)
    /\ UNCHANGED <<pstate, chains, plock, threads, progress, config, opCtx>>

\* register_user is invoked: endpoints::create_user() is awaited
register_user ==
    /\ calls' = Append(calls, NewCall("register_user", 0, "", "remote", "none"))
    /\ UNCHANGED <<pstate, chains, plock, threads, progress, config, cfgLock, opCtx>>

\* register_device(device_name): snapshot, config.device_name = device_name,
\* the request is built and endpoints::create_device(&request) is awaited
register_device(device_name) ==
    /\ cfgLock = 0
    /\ calls' = Append(calls,
                       [NewCall("register_device", device_name, "", "remote", "none")
                           EXCEPT !.snap = [Snapshot EXCEPT !.device_name = device_name]])
    /\ cfgLock' = GuardAfterSnapshot(Len(calls) + 1)
    /\ UNCHANGED <<pstate, chains, plock, threads, progress, config, opCtx>>

\* a slip: the snapshot is stored before the response is looked at
RemoteErrStoresSnapshot(c) == config' = calls[c].snap

\* .await? on an Err response: the command returns it, nothing is stored
RemoteErr(c) == UNCHANGED config

\* create_user().await? has returned; on Ok the snapshot is taken and
\* config.user_access_key = response.access_key
RegisterUserRemote(c) ==
    /\ c \in 1..Len(calls)
    /\ calls[c].cmd = "register_user" /\ calls[c].pc = "remote"
    /\ \/ /\ cfgLock = 0
          /\ calls' = [calls EXCEPT ![c] =
                 [@ EXCEPT !.pc = "update",
                           !.snap = [Snapshot EXCEPT !.user_access_key = CreatedKey]]]
          /\ cfgLock' = GuardAfterSnapshot(c)
          /\ UNCHANGED config
       \/ /\ calls' = [calls EXCEPT ![c] =
                 [@ EXCEPT !.pc = "returned", !.res = "remote_err"]]
          /\ RemoteErr(c)
          /\ UNCHANGED cfgLock
    /\ UNCHANGED <<pstate, chains, plock, threads, progress, opCtx, script>>
    /\ UNCHANGED orchVars

\* create_device(&request).await? has returned; on Ok
\* config.access_token = response.access_token
RegisterDeviceRemote(c) ==
    /\ c \in 1..Len(calls)
    /\ calls[c].cmd = "register_device" /\ calls[c].pc = "remote"
    /\ \/ /\ calls' = [calls EXCEPT ![c] =
                 [@ EXCEPT !.pc = "update", !.snap.access_token = CreatedToken]]
          /\ UNCHANGED config
       \/ /\ calls' = [calls EXCEPT ![c] =
                 [@ EXCEPT !.pc = "returned", !.res = "remote_err"]]
          /\ RemoteErr(c)
    /\ UNCHANGED <<pstate, chains, plock, threads, progress, cfgLock, opCtx, script>>
    /\ UNCHANGED orchVars

\* config_wrapper.update(config)?; Ok(()) of set_access_key, register_user
\* and register_device
ConfigUpdate(c) ==
    /\ c \in 1..Len(calls)
    /\ calls[c].cmd \in {"set_access_key", "register_user", "register_device"}
    /\ calls[c].pc = "update"
    /\ cfgLock = 0
    /\ \E ok \in BOOLEAN :
          /\ update(calls[c].snap, ok)
          /\ calls' = [calls EXCEPT ![c] =
                 [@ EXCEPT !.pc = "returned", !.res = IF ok THEN "ok" ELSE "err"]]
    /\ UNCHANGED <<pstate, chains, plock, threads, progress, cfgLock, opCtx, script>>
    /\ UNCHANGED orchVars

(***************************************************************************)
(* Specifications                                                          *)
(***************************************************************************)
OrchIdle ==
    /\ tasks = <<>> /\ acks = <<>> /\ sink = <<>> /\ nextUuid = 1
    /\ dlState = [e \in EpisodeIds |-> "not_downloaded"]
    /\ tracker = [h \in Handles |-> [e \in EpisodeIds |-> -1]]
    /\ xfer = [e \in EpisodeIds |-> [begun |-> 0, done |-> 0, failed |-> 0]]

PlayerIdle ==
    /\ pstate = [status |-> "Stopped", episode |-> 0, position |-> 0,
                 volume |-> InitialConfig.volume]
    /\ chains = {} /\ plock = 0 /\ threads = <<>> /\ calls = <<>>
    /\ config = InitialConfig /\ cfgLock = 0 /\ opCtx = {}

\* --- the long-running entry points ---------------------------------------
Init ==
    /\ OrchIdle
    /\ podcasts \in InitialPodcasts
    /\ PlayerIdle
    /\ progress = [e \in EpisodeIds |-> [listened_seconds |-> 0, completed |-> FALSE]]
    /\ script = <<>>

\* one step of the detached task t: the task steps of Next, for one task
TaskStep(t) ==
    /\ t \in 1..Len(tasks)
    /\ \/ SyncRemote(t)
       \/ SyncList(t)
       \/ SyncAll(t)
       \/ SyncPodcast(t)
       \/ SyncEpisodes(t)
       \/ SyncDone(t)
       \/ ImportFetch(t)
       \/ ImportPublish(t)
       \/ ImportMatch(t)
       \/ DownloadStart(t)
       \/ TransferProgress(t)
       \/ TransferComplete(t)
       \/ TransferFail(t)
       \/ DownloadPublish(t)

Next ==
    \/ sync_podcasts
    \/ import_podcast
    \/ \E id \in EpisodeIds : download_episode(id)
    \/ \E t \in 1..Len(tasks) : SyncRemote(t)
    \/ \E t \in 1..Len(tasks) : SyncList(t)
    \/ \E t \in 1..Len(tasks) : SyncAll(t)
    \/ \E t \in 1..Len(tasks) : SyncPodcast(t)
    \/ \E t \in 1..Len(tasks) : SyncEpisodes(t)
    \/ \E t \in 1..Len(tasks) : SyncDone(t)
    \/ \E t \in 1..Len(tasks) : ImportFetch(t)
    \/ \E t \in 1..Len(tasks) : ImportPublish(t)
    \/ \E t \in 1..Len(tasks) : ImportMatch(t)
    \/ \E t \in 1..Len(tasks) : DownloadStart(t)
    \/ \E t \in 1..Len(tasks) : TransferProgress(t)
    \/ \E t \in 1..Len(tasks) : TransferComplete(t)
    \/ \E t \in 1..Len(tasks) : TransferFail(t)
    \/ \E t \in 1..Len(tasks) : DownloadPublish(t)

Spec == Init /\ [][Next]_vars

\* the tokio runtime polls every spawned task, and every call a task awaits
\* returns (Ok or Err)
FairSpec == Spec /\ \A t \in 1..MaxCalls : WF_vars(TaskStep(t))

\* --- import_podcast alone ---------------------------------------------------
\* one step of the import task t
ImportStep(t) ==
    /\ t \in 1..Len(tasks)
    /\ \/ ImportFetch(t)
       \/ ImportPublish(t)
       \/ ImportMatch(t)

NextImport ==
    \/ import_podcast
    \/ \E t \in 1..Len(tasks) : ImportFetch(t)
    \/ \E t \in 1..Len(tasks) : ImportPublish(t)
    \/ \E t \in 1..Len(tasks) : ImportMatch(t)

SpecImport == Init /\ [][NextImport]_vars

FairSpecImport == SpecImport /\ \A t \in 1..MaxCalls : WF_vars(ImportStep(t))

\* --- the player and volume commands, invoked freely -----------------------
InitPlayer ==
    /\ OrchIdle
    /\ podcasts = <<>>
    /\ PlayerIdle
    /\ progress \in [EpisodeIds -> InitialProgress]
    /\ script = <<>>

\* a command arrives: any command, while the run's budget lasts
Free ==
    /\ script = <<>>
    /\ Len(calls) < MaxCmds
    /\ UNCHANGED script
    /\ UNCHANGED orchVars

\* a step of a spawned thread
Background ==
    /\ UNCHANGED script
    /\ UNCHANGED orchVars

NextPlayer ==
    \/ \E id \in EpisodeIds \cup {MissingEpisode} : Free /\ play_episode(id)
    \/ \E action \in PlayerActions : Free /\ player_action(action)
    \/ \E to \in SeekTargets : Free /\ seek(to)
    \/ \E volume \in VolumeInputs : Free /\ set_volume(volume)
    \/ \E i \in 1..Len(threads) : Background /\ ThreadTeardown(i)
    \/ \E i \in 1..Len(threads) : Background /\ ThreadConstruct(i)
    \/ \E i \in 1..Len(threads) : Background /\ ThreadAction(i)
    \/ \E c \in 1..Len(calls) : SetVolumeUpdate(c)
    \/ \E c \in 1..Len(calls) : SetVolumePlayer(c)

SpecPlayer == InitPlayer /\ [][NextPlayer]_vars

\* --- the Config commands, invoked freely ----------------------------------
InitConfig ==
    /\ OrchIdle
    /\ podcasts = <<>>
    /\ PlayerIdle
    /\ progress = [e \in EpisodeIds |-> [listened_seconds |-> 0, completed |-> FALSE]]
    /\ script = <<>>

NextConfig ==
    \/ Free /\ get_config
    \/ \E new_config \in ConfigInputs : Free /\ set_config(new_config)
    \/ \E value \in KeyInputs : Free /\ set_access_key(value)
    \/ Free /\ register_user
    \/ \E device_name \in DeviceNames : Free /\ register_device(device_name)
    \/ \E volume \in VolumeInputs : Free /\ set_volume(volume)
    \/ \E c \in 1..Len(calls) : RegisterUserRemote(c)
    \/ \E c \in 1..Len(calls) : RegisterDeviceRemote(c)
    \/ \E c \in 1..Len(calls) : ConfigUpdate(c)
    \/ \E c \in 1..Len(calls) : SetVolumeUpdate(c)
    \/ \E c \in 1..Len(calls) : SetVolumePlayer(c)

SpecConfig == InitConfig /\ [][NextConfig]_vars

\* --- the player commands, invoked one after the other from a script -------
Command(cmd, arg, action) == [cmd |-> cmd, arg |-> arg, action |-> action]

\* play_episode(42), pause, seek(120), play
Scenario ==
    << Command("play_episode", 42, ""), Command("player_action", 0, "pause"),
       Command("seek", 120, ""), Command("player_action", 0, "play") >>

\* episode 42 is stored with a start offset of 0
InitScenario ==
    /\ OrchIdle
    /\ podcasts = <<>>
    /\ PlayerIdle
    /\ progress \in [EpisodeIds -> InitialProgress]
    /\ progress[42].completed \/ progress[42].listened_seconds = 0
    /\ script = Scenario

\* the next command of the script arrives, the previous one having returned
Scripted(cmd) ==
    /\ script # <<>>
    /\ Head(script).cmd = cmd
    /\ \A c \in 1..Len(calls) : calls[c].pc = "returned"
    /\ script' = Tail(script)
    /\ UNCHANGED orchVars

NextScenario ==
    \/ Scripted("play_episode") /\ play_episode(Head(script).arg)
    \/ Scripted("player_action") /\ player_action(Head(script).action)
    \/ Scripted("seek") /\ seek(Head(script).arg)
    \/ \E i \in 1..Len(threads) : Background /\ ThreadTeardown(i)
    \/ \E i \in 1..Len(threads) : Background /\ ThreadConstruct(i)
    \/ \E i \in 1..Len(threads) : Background /\ ThreadAction(i)

SpecScenario == InitScenario /\ [][NextScenario]_vars

(***************************************************************************)
(* Properties of the long-running entry points                             *)
(***************************************************************************)
TaskIds(kind) == {t \in 1..Len(tasks) : tasks[t].kind = kind}

\* the calls of task t on the sink that are not change events
Terminals(t) == {i \in 1..Len(sink[t]) : sink[t][i].name # "invalidate-cache"}

\* ... and among them those that report a failure
Failures(t) ==
    {i \in Terminals(t) :
        sink[t][i].name \notin {"sync-podcasts-done", "import-podcast-done"}}

\* the change events task t published, or tried to
Published(t, change) ==
    {i \in 1..Len(sink[t]) :
        sink[t][i].name = "invalidate-cache" /\ sink[t][i].payload = change}

ImportAcked(t) ==
    /\ t <= Len(acks)
    /\ acks[t].cmd = "import_podcast" /\ acks[t].ok
    /\ acks[t].value = tasks[t].id

ImportSafe ==
    /\ \A t \in TaskIds("import") :
          /\ ImportAcked(t)
          /\ Cardinality(Terminals(t)) <= 1
          /\ \A i \in Terminals(t) :
                /\ sink[t][i].name \in {"import-podcast-done", "import-podcast-error"}
                /\ sink[t][i].payload = <<"id", acks[t].value>>
          /\ \A u \in TaskIds("import") : u # t => acks[u].value # acks[t].value
    /\ \A t \in 1..Len(tasks) : \A i \in 1..Len(sink[t]) :
          sink[t][i].name \in {"import-podcast-done", "import-podcast-error"}
              => tasks[t].kind = "import"

ImportNotified(t) ==
    /\ t \in TaskIds("import")
    /\ Cardinality(Terminals(t)) = 1

\* C1: import_podcast returns its identifier when it has spawned the task (the
\* task has not run yet), every import task emits at most one of
\* import-podcast-done / import-podcast-error, always with the identifier its
\* command returned, and every import task eventually has emitted exactly one.
C1_ImportExactlyOneNotification ==
    /\ []ImportSafe
    /\ \A t \in 1..MaxCalls : (t \in TaskIds("import")) ~> ImportNotified(t)

\* C1 witness: two imports have finished, one with import-podcast-done and one
\* with import-podcast-error, each tagged with the identifier returned
C1_Witness ==
    \E t, u \in TaskIds("import") :
        /\ tasks[t].pc = "finished" /\ tasks[u].pc = "finished"
        /\ Len(sink[t]) >= 1
        /\ sink[t][Len(sink[t])].name = "import-podcast-done"
        /\ sink[t][Len(sink[t])].payload = <<"id", acks[t].value>>
        /\ Len(sink[u]) >= 1
        /\ sink[u][Len(sink[u])].name = "import-podcast-error"
        /\ sink[u][Len(sink[u])].payload = <<"id", acks[u].value>>

\* C2: a sync task that failed (at the remote sync, the listing or a change
\* event) has emitted exactly one terminal failure notification.
C2_SyncFailureNotifiedOnce ==
    \A t \in TaskIds("sync") :
        tasks[t].pc = "panicked" => Cardinality(Failures(t)) = 1

\* C3: a download task that has finished has emitted exactly one terminal
\* notification, and one that finished with an error a failure notification.
C3_DownloadTerminalNotification ==
    \A t \in TaskIds("download") :
        tasks[t].pc = "finished" =>
            /\ Cardinality(Terminals(t)) = 1
            /\ tasks[t].res = "err" => Cardinality(Failures(t)) = 1

\* C4: a download task that has finished, with success or with failure, has
\* published Episode(id), and no task publishes it before start_download
\* has returned.
C4_EpisodeChangePublished ==
    \A t \in TaskIds("download") :
        /\ tasks[t].pc = "finished" => Published(t, <<"Episode", tasks[t].id>>) # {}
        /\ tasks[t].pc \in {"start", "transfer"} => sink[t] = <<>>

Downloads(e) == {t \in TaskIds("download") : tasks[t].id = e}

Transferring(e) == {t \in Downloads(e) : tasks[t].pc = "transfer"}

EntryPoint(kind) ==
    CASE kind = "sync" -> "sync_podcasts"
      [] kind = "import" -> "import_podcast"
      [] kind = "download" -> "download_episode"

\* every task spawned so far has its command's Ok, and a task not yet run has it
AckedAtSpawn ==
    /\ Len(acks) = Len(tasks)
    /\ \A t \in 1..Len(tasks) :
          /\ acks[t].cmd = EntryPoint(tasks[t].kind)
          /\ acks[t].ok

\* what a command returned is not touched again
AcksKept ==
    /\ Len(acks') >= Len(acks)
    /\ \A t \in 1..Len(acks) : acks'[t] = acks[t]

\* C12: sync_podcasts, import_podcast and download_episode return Ok in the
\* step that spawns the task, before the task has taken a step, and what they
\* returned stays as it is whether the task later succeeds, fails or panics.
C12_AckIndependentOfWork == []AckedAtSpawn /\ [][AcksKept]_vars

\* C12 witness: a sync task has panicked and a download task has ended in an
\* error, and the commands that spawned them had returned Ok
C12_Witness ==
    \E t \in TaskIds("sync") : \E u \in TaskIds("download") :
        /\ tasks[t].pc = "panicked" /\ acks[t].ok
        /\ tasks[u].pc = "finished" /\ tasks[u].res = "err" /\ acks[u].ok

\* the change events of a sync over the podcasts l, in the order of the code
SyncEvents(l) ==
    [i \in 1..(2 * Len(l) + 1) |->
        IF i = 1 THEN <<"AllPodcasts", 0>>
        ELSE IF i % 2 = 0 THEN <<"Podcast", l[i \div 2]>>
        ELSE <<"PodcastEpisodes", l[(i - 1) \div 2]>>]

\* the sink calls of sync task t are the events of its listing, in order, each
\* delivered but possibly the last, then sync-podcasts-done if it has finished
SyncInOrder(t) ==
    LET want == SyncEvents(tasks[t].listed)
        n == IF tasks[t].pc = "finished" THEN Len(sink[t]) - 1 ELSE Len(sink[t])
    IN  /\ n <= Len(want)
        /\ \A i \in 1..n :
              /\ sink[t][i].name = "invalidate-cache"
              /\ sink[t][i].payload = want[i]
              /\ i < n => sink[t][i].ok
        /\ tasks[t].pc = "finished" =>
              /\ n = Len(want)
              /\ sink[t][n].ok
              /\ sink[t][n + 1].name = "sync-podcasts-done"

\* C13: a sync task publishes AllPodcasts, then Podcast(id) and
\* PodcastEpisodes(id) for each listed podcast in the listed order, and a task
\* that has finished has emitted sync-podcasts-done once, as its last call.
C13_SyncEventOrder == \A t \in TaskIds("sync") : SyncInOrder(t)

\* C13 witness: a sync over two podcasts has finished: five change events,
\* then sync-podcasts-done
C13_Witness ==
    \E t \in TaskIds("sync") :
        /\ tasks[t].pc = "finished"
        /\ Len(tasks[t].listed) = 2
        /\ Len(sink[t]) = 6
        /\ sink[t][6].name = "sync-podcasts-done"

\* the calls of import task t that emit the notification name
Notified(t, name) == {i \in 1..Len(sink[t]) : sink[t][i].name = name}

\* C14: an import task emits import-podcast-done only after its change event
\* Podcast(id) was delivered, and one whose import or publication failed has,
\* when finished, emitted import-podcast-error once and no import-podcast-done.
C14_ImportDoneAfterPublish ==
    \A t \in TaskIds("import") :
        /\ \A i \in Notified(t, "import-podcast-done") :
              \E j \in Published(t, <<"Podcast", tasks[t].podcast>>) :
                  j < i /\ sink[t][j].ok
        /\ (tasks[t].pc = "finished" /\ tasks[t].res = "err") =>
              /\ Notified(t, "import-podcast-done") = {}
              /\ Cardinality(Notified(t, "import-podcast-error")) = 1

\* C14 witness: the import succeeded, the publication of Podcast(id) failed,
\* and the task emitted import-podcast-error
C14_Witness ==
    \E t \in TaskIds("import") :
        /\ tasks[t].pc = "finished"
        /\ Len(sink[t]) = 2
        /\ sink[t][1].name = "invalidate-cache" /\ ~sink[t][1].ok
        /\ sink[t][2].name = "import-podcast-error"

(***************************************************************************)
(* Properties of the player and volume commands                            *)
(***************************************************************************)
\* C6: at most one decode/output chain is live at any instant, and a thread
\* that is about to build a chain holds the Player's lock with no chain live.
C6_OneChain ==
    /\ Cardinality(chains) <= 1
    /\ \A i \in 1..Len(threads) :
          threads[i].pc = "construct" => chains = {} /\ plock = i

\* C6 witness: a second play_episode has replaced the chain of a first
C6_Witness ==
    \E i, j \in 1..Len(threads) :
        /\ i # j
        /\ threads[i].op = "play_episode" /\ threads[i].pc = "done"
        /\ threads[j].op = "play_episode" /\ threads[j].pc = "done"
        /\ chains = {j}

\* the play_episode threads and calls that the step being taken adds
SpawnedNow == {i \in (Len(threads) + 1)..Len(threads') : threads'[i].op = "play_episode"}

PlayCalledNow == {c \in (Len(calls) + 1)..Len(calls') : calls'[c].cmd = "play_episode"}

\* C18: the start offset play_episode hands to the Player is 0 when the stored
\* progress of the episode is completed and the stored listened_seconds
\* otherwise, and it is never more than the stored listened_seconds.
C18_StartOffset ==
    [][\A i \in SpawnedNow :
          LET p == progress[threads'[i].ep]
          IN  /\ threads'[i].start = IF p.completed THEN 0 ELSE p.listened_seconds
              /\ threads'[i].start <= p.listened_seconds]_vars

\* C18 witness: two threads spawned and not yet run, one for a completed
\* episode stored at 150 s with offset 0, one for an episode stored at 30 s
\* and not completed with offset 30
C18_Witness ==
    \E i, j \in 1..Len(threads) :
        /\ threads[i].op = "play_episode" /\ threads[i].pc = "spawned"
        /\ progress[threads[i].ep] = [listened_seconds |-> 150, completed |-> TRUE]
        /\ threads[i].start = 0
        /\ threads[j].op = "play_episode" /\ threads[j].pc = "spawned"
        /\ progress[threads[j].ep] = [listened_seconds |-> 30, completed |-> FALSE]
        /\ threads[j].start = 30

\* C19: a play_episode whose lookup of the episode or of its progress fails
\* returns the error in the same step, spawns no thread and leaves the
\* Player, its chain and the stored progress as they were; a play_episode of
\* an episode that does not exist is such a call.
C19_LookupFailureNoEffect ==
    [][\A c \in PlayCalledNow :
          /\ calls'[c].arg = MissingEpisode => calls'[c].res = "err"
          /\ calls'[c].res = "err" =>
                /\ calls'[c].pc = "returned"
                /\ threads' = threads
                /\ pstate' = pstate /\ chains' = chains /\ plock' = plock
                /\ progress' = progress]_vars

\* C19 witness: while an episode is playing, a play_episode of an existing
\* episode has returned an error; the one thread is that of the first call
C19_Witness ==
    /\ Len(calls) = 2 /\ Len(threads) = 1
    /\ calls[1].cmd = "play_episode" /\ calls[1].res = "ok"
    /\ calls[2].cmd = "play_episode" /\ calls[2].res = "err"
    /\ calls[2].arg \in EpisodeIds /\ calls[2].arg # calls[1].arg
    /\ threads[1].pc = "done"
    /\ pstate.status = "Playing" /\ pstate.episode = calls[1].arg

\* C7: when play_episode(42), pause, seek(120) and play have been invoked in
\* that order, all returned Ok and every spawned thread has run to its end,
\* the Player is Playing episode 42 at position 120.
C7_ScenarioFinalState ==
    ( /\ script = <<>>
      /\ Len(calls) = Len(Scenario)
      /\ \A c \in 1..Len(calls) : calls[c].res = "ok"
      /\ \A i \in 1..Len(threads) : threads[i].pc = "done" )
    => /\ pstate.status = "Playing"
       /\ pstate.position = 120
       /\ pstate.episode = 42

TransportOps ==
    {"play_episode", "play", "pause", "skip_forwards", "skip_backwards", "seek_to"}

\* C8: every transport operation of the Player has run on a spawned thread,
\* never in the context of the command that asked for it.
C8_TransportOffCaller ==
    \A p \in opCtx : p[1] \in TransportOps => p[2] = "thread"

VolumeCalls == {c \in 1..Len(calls) : calls[c].cmd = "set_volume"}

\* C9: the volume a set_volume call writes to the Config and the volume it
\* hands to the Player lie in [0.0, 1.0].
C9_VolumeClamped ==
    /\ config.volume \in 0..10
    /\ \A c \in VolumeCalls :
          calls[c].res = "ok" =>
              /\ calls[c].snap.volume \in 0..10
              /\ calls[c].arg \in 0..10

\* C10: every set_volume call that has returned returned Ok and has applied
\* the volume to the Player.
C10_VolumeAlwaysApplied ==
    \A c \in VolumeCalls :
        calls[c].pc = "returned" =>
            /\ calls[c].res = "ok"
            /\ <<"set_volume", "caller">> \in opCtx

(***************************************************************************)
(* Properties of the Config commands                                       *)
(***************************************************************************)
\* the calls whose update has returned Ok
Committed ==
    {c \in 1..Len(calls) :
        /\ calls[c].cmd \in {"set_config", "set_access_key", "register_user",
                              "register_device", "set_volume"}
        /\ calls[c].res = "ok" \/ calls[c].pc = "player"}

\* the values a read may return: the initial one and the arguments of the
\* updates that have completed
CommittedValues == {InitialConfig} \cup {calls[c].snap : c \in Committed}

ReadNow == {c \in (Len(calls) + 1)..Len(calls') : calls'[c].cmd = "get_config"}

\* C11: every get_config returns, in the step it is invoked, a whole Config
\* that is the initial value or the argument of an update completed by then,
\* whatever the commands in flight have built.
C11_ReadIsCommittedValue ==
    [][\A c \in ReadNow :
          /\ calls'[c].pc = "returned"
          /\ calls'[c].snap \in CommittedValues]_vars

\* C11 witness: a register_device is in flight, its value built and not yet
\* stored, and a get_config invoked after it has returned the initial value
C11_Witness ==
    /\ Len(calls) = 2
    /\ calls[1].cmd = "register_device" /\ calls[1].pc \in {"remote", "update"}
    /\ calls[1].snap.device_name # InitialConfig.device_name
    /\ calls[2].cmd = "get_config" /\ calls[2].snap = InitialConfig

\* C15: while a command awaits create_user or create_device no call holds
\* the Config's Mutex, and a get_config is not kept waiting.
C15_NoLockAcrossRemote ==
    (\E c \in 1..Len(calls) : calls[c].pc = "remote") => cfgLock = 0

\* C15 witness: a register_device has taken its snapshot and awaits
\* create_device, and a get_config invoked meanwhile has returned
C15_Witness ==
    /\ Len(calls) = 2
    /\ calls[1].cmd = "register_device" /\ calls[1].pc = "remote"
    /\ calls[1].snap # NoConfig
    /\ calls[2].cmd = "get_config" /\ calls[2].pc = "returned"

\* the Config fields a command assigns
Fields(cmd) ==
    CASE cmd = "set_volume" -> {"volume"}
      [] cmd \in {"set_access_key", "register_user"} -> {"user_access_key"}
      [] cmd = "register_device" -> {"device_name", "access_token"}
      [] OTHER -> {}

\* C16: when two commands that assign different Config fields have both
\* returned Ok and no other command has run, the Config holds what each of
\* them assigned.
C16_BothChangesKept ==
    \A c, d \in 1..Len(calls) :
        ( /\ c # d /\ Len(calls) = 2
          /\ calls[c].res = "ok" /\ calls[d].res = "ok"
          /\ Fields(calls[c].cmd) # {} /\ Fields(calls[d].cmd) # {}
          /\ Fields(calls[c].cmd) \cap Fields(calls[d].cmd) = {} )
        => \A f \in Fields(calls[c].cmd) : config[f] = calls[c].snap[f]

\* C17: when the calls made are set_volume calls with volumes in [0.0, 1.0]
\* and all have returned Ok, the volume of the Config is the volume of the
\* Player.
C17_VolumeAgrees ==
    ( /\ calls # <<>>
      /\ \A c \in 1..Len(calls) :
            /\ calls[c].cmd = "set_volume" /\ calls[c].res = "ok"
            /\ calls[c].arg \in 0..10 )
    => config.volume = pstate.volume

\* C20: the step in which create_user or create_device fails returns the
\* error from register_user or register_device and leaves the Config as it
\* was, and the call takes no step afterwards: its snapshot is not stored.
C20_RemoteFailureKeepsConfig ==
    [][\A c \in 1..Len(calls') :
          calls'[c].res = "remote_err" =>
              /\ calls'[c].cmd \in {"register_user", "register_device"}
              /\ calls'[c].pc = "returned"
              /\ IF c <= Len(calls) /\ calls[c].res = "remote_err"
                 THEN calls'[c] = calls[c]
                 ELSE config' = config]_vars

\* C20 witness: create_device has failed: register_device has returned the
\* error, its snapshot carries the new device_name, the Config the old one
C20_Witness ==
    \E c \in 1..Len(calls) :
        /\ calls[c].cmd = "register_device"
        /\ calls[c].pc = "returned" /\ calls[c].res = "remote_err"
        /\ calls[c].snap.device_name = "dev1"
        /\ config = InitialConfig

====
